---- MODULE Spec2Model ----
(***************************************************************************)
(* Model of text_minesweeper/game.py: the Board (mine layout, adjacency    *)
(* counts, visibility, flags, step) and the Game that owns one (play,      *)
(* reset) as a state machine.                                              *)
(*                                                                         *)
(* A position is a pair <<row, col>>.  board, visibility and flags are     *)
(* functions over the board_size x board_size positions, as the numpy      *)
(* arrays of the class are.                                                *)
(***************************************************************************)
EXTENDS Integers, Sequences, FiniteSets, TLC

\* ------------------------------------------------------------------ bounds
\* Largest board_size the deep specification (Spec) constructs.
MaxSize == 3
\* Largest num_mines a constructed board has.
MaxMines == 2
\* Number of step calls on one board under Spec.
MaxCalls == 3
\* Number of step calls on one board under SpecWide (boards up to MaxSize + 1).
MaxWideCalls == 2
\* Number of step calls under SpecBuild (every num_mines, invalid ones too) and
\* under SpecAny (indices outside the board too).
MaxBuildCalls == 1
\* Number of Game.reset calls under SpecGame.
MaxResets == 1

\* --------------------------------------------------------------- constants
ADJACENT_SPACE_DELTAS_Moore ==
    << <<-1, -1>>, <<-1, 0>>, <<-1, 1>>, <<0, -1>>, <<0, 1>>, <<1, -1>>, <<1, 0>>, <<1, 1>> >>

\* A delta list that lost its last entry.
ADJACENT_SPACE_DELTAS_NoLeft ==
    << <<-1, 0>>, <<0, 1>>, <<1, 0>> >>

ADJACENT_SPACE_DELTAS ==
    << <<-1, 0>>, <<0, 1>>, <<1, 0>>, <<0, -1>> >>

SURROUNDING_SPACE_DELTAS ==
    << <<-1, -1>>, <<-1, 0>>, <<-1, 1>>, <<0, -1>>, <<0, 1>>, <<1, -1>>, <<1, 0>>, <<1, 1>> >>

\* Return values of step.
Ongoing == 0
Lost == 0 - 1
Won == 1

\* The value of `last' on a board no step call was made on yet (made is False).
\* raised: the call ended in numpy's IndexError and returned nothing.
NoCall ==
    [made |-> FALSE, row |-> 0, col |-> 0, flag |-> FALSE, raised |-> FALSE, ret |-> Ongoing]

\* The value of `last_input' before Game.play read a move.
NoInput == [n |-> 0, row |-> 0, col |-> 0, flag |-> FALSE]

\* ------------------------------------------------------------------- state
VARIABLES
    board_size,   \* Board.board_size
    num_mines,    \* Board.num_mines
    board,        \* Board.board: -1 is a mine, 0..8 the number of surrounding mines
    visibility,   \* Board.visibility
    flags,        \* Board.flags
    mine_locs,    \* the flat locations np.random.choice drew in Board.__init__
    budget,       \* step calls the caller may still make on this board
    last,         \* the last step call: its arguments and what it returned
    prev,         \* visibility, flags before the last call, and the call before it
    only_safe,    \* every call so far was a reveal (flag = False) of a non-mine position
    ever_lost,    \* some step call on this board returned Lost
    constructed,  \* Board.__init__ returned; False when it raised
    game_board_size,  \* Game.board_size
    game_num_mines,   \* Game.num_mines
    resets,       \* Game.reset calls made
    pc,           \* Game.play: "idle" not running, "loop" in the while loop,
                  \* "done" returned, "raised" left by an exception of step
    game_status,  \* Game.play's local game_status
    report,       \* what Game.play printed after the loop: "none", "lose", "win"
    last_input    \* the move Game.play parsed last from input(), and n, the
                  \* number of moves it parsed since it was called

board_vars == <<board_size, num_mines, board, visibility, flags, mine_locs>>
hist_vars == <<budget, last, prev, only_safe, ever_lost>>
game_vars == <<game_board_size, game_num_mines, resets>>
play_vars == <<pc, game_status, report, last_input>>

vars == <<board_size, num_mines, board, visibility, flags, mine_locs, budget, last, prev, only_safe,
          ever_lost, constructed, game_board_size, game_num_mines, resets,
          pc, game_status, report, last_input>>

Positions(n) == (0 .. n - 1) \X (0 .. n - 1)

\* ----------------------------------------------------------------- helpers
\* Board._within_board
within_board(n, row, col) ==
    (0 <= row /\ row < n) /\ (0 <= col /\ col < n)

\* A count that checks the upper edge only: numpy then reads a negative index
\* from the opposite edge.
num_mines_surrounding_Wrap(n, b, row, col) ==
    Cardinality({i \in 1 .. Len(SURROUNDING_SPACE_DELTAS) :
        LET curr_row == row + SURROUNDING_SPACE_DELTAS[i][1]
            curr_col == col + SURROUNDING_SPACE_DELTAS[i][2]
        IN  /\ curr_row < n /\ curr_col < n
            /\ b[<<IF curr_row < 0 THEN curr_row + n ELSE curr_row,
                   IF curr_col < 0 THEN curr_col + n ELSE curr_col>>] = -1})

\* Board._num_mines_surrounding, on the array b of an n x n board
num_mines_surrounding(n, b, row, col) ==
    Cardinality({i \in 1 .. Len(SURROUNDING_SPACE_DELTAS) :
        LET curr_row == row + SURROUNDING_SPACE_DELTAS[i][1]
            curr_col == col + SURROUNDING_SPACE_DELTAS[i][2]
        IN  within_board(n, curr_row, curr_col) /\ b[<<curr_row, curr_col>>] = -1})

\* Board.__init__: the board array for the sampled flat mine locations
NewBoard(n, mine_flattened_locs) ==
    LET mined == [p \in Positions(n) |->
                    IF \E flat_loc \in mine_flattened_locs :
                          p = <<flat_loc \div n, flat_loc % n>>
                    THEN -1 ELSE 0]
    IN  [p \in Positions(n) |->
            IF mined[p] # -1 THEN num_mines_surrounding(n, mined, p[1], p[2])
            ELSE mined[p]]

\* numpy indexing of an axis of length n: -n .. -1 count from the end, anything
\* outside -n .. n-1 raises IndexError.
NpInRange(n, i) == 0 - n <= i /\ i < n
NpIndex(n, i) == IF i < 0 THEN i + n ELSE i
NpPos(n, row, col) == <<NpIndex(n, row), NpIndex(n, col)>>

\* `x in spaces' for a list
InList(x, list) == \E i \in 1 .. Len(list) : list[i] = x

\* The for loop of _connected_blank_spaces over ADJACENT_SPACE_DELTAS, from the
\* i-th delta on, for the position (row, col) popped from the queue.
RECURSIVE ExpandAdjacent(_, _, _, _, _)
ExpandAdjacent(sq, row, col, i, deltas) ==
    IF i > Len(deltas) THEN sq
    ELSE LET curr_row == row + deltas[i][1]
             curr_col == col + deltas[i][2]
             hit == /\ within_board(board_size, curr_row, curr_col)
                    /\ board[<<curr_row, curr_col>>] = 0
                    /\ ~ InList(<<curr_row, curr_col>>, sq.spaces)
         IN  ExpandAdjacent(
                 IF hit THEN [spaces |-> Append(sq.spaces, <<curr_row, curr_col>>),
                              queue  |-> Append(sq.queue, <<curr_row, curr_col>>)]
                 ELSE sq,
                 row, col, i + 1, deltas)

\* The while loop of _connected_blank_spaces
RECURSIVE SearchBlank(_)
SearchBlank(sq) ==
    IF Len(sq.queue) = 0 THEN sq.spaces
    ELSE LET p == Head(sq.queue)
         IN  SearchBlank(ExpandAdjacent([spaces |-> sq.spaces, queue |-> Tail(sq.queue)],
                                        p[1], p[2], 1, ADJACENT_SPACE_DELTAS))

\* Board._connected_blank_spaces
connected_blank_spaces(row, col) ==
    SearchBlank([spaces |-> << <<row, col>> >>, queue |-> << <<row, col>> >>])

\* A flag branch that leaves the flag of a visible position alone.
ToggleFlag_HiddenOnly(flg, row, col) ==
    IF visibility[NpPos(board_size, row, col)] THEN flg
    ELSE [flg EXCEPT ![NpPos(board_size, row, col)] = ~ @]

\* A flag branch that sets the flag instead of inverting it.
ToggleFlag_SetOnly(flg, row, col) ==
    [flg EXCEPT ![NpPos(board_size, row, col)] = TRUE]

\* step, flag branch: self.flags[row, col] = not self.flags[row, col]
ToggleFlag(flg, row, col) ==
    [flg EXCEPT ![NpPos(board_size, row, col)] = ~ @]

\* A numbered branch copied from the flag line: it inverts the entry.
RevealNumbered_Toggle(vis, row, col) ==
    [vis EXCEPT ![NpPos(board_size, row, col)] = ~ @]

\* step, branch board[row, col] > 0
RevealNumbered(vis, row, col) ==
    [vis EXCEPT ![NpPos(board_size, row, col)] = TRUE]

\* step, the two loops of the branch board[row, col] == 0: the positions set
\* visible for the list blank_spaces, each space itself and the surrounding
\* positions that hold a number
Uncovered(blank_spaces) ==
    UNION {
        {NpPos(board_size, blank_spaces[k][1], blank_spaces[k][2])} \cup
        {<<blank_spaces[k][1] + SURROUNDING_SPACE_DELTAS[i][1],
           blank_spaces[k][2] + SURROUNDING_SPACE_DELTAS[i][2]>> :
            i \in {j \in 1 .. Len(SURROUNDING_SPACE_DELTAS) :
                LET curr_row == blank_spaces[k][1] + SURROUNDING_SPACE_DELTAS[j][1]
                    curr_col == blank_spaces[k][2] + SURROUNDING_SPACE_DELTAS[j][2]
                IN  /\ within_board(board_size, curr_row, curr_col)
                    /\ board[<<curr_row, curr_col>>] > 0}}
        : k \in 1 .. Len(blank_spaces)}

\* A flood fill that passes over flagged positions.
SetVisible_SkipFlagged(vis, shown) ==
    [p \in DOMAIN vis |-> vis[p] \/ (p \in shown /\ ~ flags[p])]

\* An assignment of the mask instead of setting its positions: what was
\* visible outside `shown' is hidden again.
SetVisible_Overwrite(vis, shown) ==
    [p \in DOMAIN vis |-> p \in shown]

\* visibility with the positions of the set `shown' set to True
SetVisible(vis, shown) ==
    [p \in DOMAIN vis |-> vis[p] \/ p \in shown]

\* step, branch board[row, col] == 0
RevealBlank(vis, row, col) ==
    SetVisible(vis, Uncovered(connected_blank_spaces(row, col)))

\* np.sum(self.visibility)
np_sum(vis) == Cardinality({p \in DOMAIN vis : vis[p]})

\* A win check that forgets the mines: every position must be visible.
GameStatus_IgnoreMines(vis) ==
    IF np_sum(vis) = board_size * board_size THEN Won ELSE Ongoing

\* A win check with >= for ==.
GameStatus_AtLeast(vis) ==
    IF np_sum(vis) >= board_size * board_size - num_mines THEN Won ELSE Ongoing

\* the end of step: won when the number of visible positions is that of the non-mines
GameStatus(vis) ==
    IF np_sum(vis) = board_size * board_size - num_mines THEN Won ELSE Ongoing

\* A mine branch that shows a flagged mine and goes on to the win check.
RevealMine_ShowsFlagged(vis, flg, row, col) ==
    IF ~ flg[NpPos(board_size, row, col)]
    THEN [visibility |-> [vis EXCEPT ![NpPos(board_size, row, col)] = TRUE],
          flags |-> flg, raised |-> FALSE, ret |-> Lost]
    ELSE [visibility |-> [vis EXCEPT ![NpPos(board_size, row, col)] = TRUE],
          flags |-> flg, raised |-> FALSE,
          ret |-> GameStatus([vis EXCEPT ![NpPos(board_size, row, col)] = TRUE])]

\* The mine branch without the flag check: a flagged mine explodes too.
RevealMine_NoFlagCheck(vis, flg, row, col) ==
    [visibility |-> [vis EXCEPT ![NpPos(board_size, row, col)] = TRUE],
     flags |-> flg, raised |-> FALSE, ret |-> Lost]

\* step, else branch (board[row, col] is a mine): lose unless it is flagged; a
\* flagged mine is left alone and the call goes on to the win check.
RevealMine(vis, flg, row, col) ==
    IF ~ flg[NpPos(board_size, row, col)]
    THEN [visibility |-> [vis EXCEPT ![NpPos(board_size, row, col)] = TRUE],
          flags |-> flg, raised |-> FALSE, ret |-> Lost]
    ELSE [visibility |-> vis, flags |-> flg, raised |-> FALSE, ret |-> GameStatus(vis)]

\* Board.step(row, col, flag) on a board whose visibility is vis and flags is flg:
\* the arrays after the call and what the call returns; raised when numpy rejects
\* the index (the first statement that indexes an array raises, nothing is
\* written before it).
StepResult(vis, flg, row, col, flag) ==
    IF ~ (NpInRange(board_size, row) /\ NpInRange(board_size, col))
    THEN [visibility |-> vis, flags |-> flg, raised |-> TRUE, ret |-> Ongoing]
    ELSE LET pos == NpPos(board_size, row, col)
         IN  IF flag
             THEN [visibility |-> vis, flags |-> ToggleFlag(flg, row, col),
                   raised |-> FALSE, ret |-> GameStatus(vis)]
             ELSE IF board[pos] > 0
             THEN LET v == RevealNumbered(vis, row, col)
                  IN  [visibility |-> v, flags |-> flg, raised |-> FALSE, ret |-> GameStatus(v)]
             ELSE IF board[pos] = 0
             THEN LET v == RevealBlank(vis, row, col)
                  IN  [visibility |-> v, flags |-> flg, raised |-> FALSE, ret |-> GameStatus(v)]
             ELSE RevealMine(vis, flg, row, col)

\* ----------------------------------------------------------------- actions
\* Board.__init__ raises: np.zeros rejects a negative dimension, and
\* np.random.choice(board_size ** 2, num_mines, replace=False) rejects a negative
\* sample size, one larger than the population, and an empty population unless
\* no sample is taken.
ConstructRaises(n, m) ==
    \/ n < 0
    \/ m < 0
    \/ m > n * n
    \/ (n * n <= 0 /\ m # 0)

\* Board.__init__(n, m) with the draw mine_flattened_locs: the fields of the board.
BoardInit(n, m, mine_flattened_locs) ==
    /\ board_size = n
    /\ num_mines = m
    /\ board = NewBoard(n, mine_flattened_locs)
    /\ visibility = [p \in Positions(n) |-> FALSE]
    /\ flags = [p \in Positions(n) |-> FALSE]
    /\ mine_locs = mine_flattened_locs

\* The history of a board no call was made on, and a Game that is not playing.
FreshHistory(n, calls) ==
    /\ budget = calls
    /\ last = NoCall
    /\ prev = [visibility |-> [p \in Positions(n) |-> FALSE],
               flags |-> [p \in Positions(n) |-> FALSE],
               call |-> NoCall]
    /\ only_safe = TRUE
    /\ ever_lost = FALSE
    /\ resets = 0
    /\ pc = "idle"
    /\ game_status = Ongoing
    /\ report = "none"
    /\ last_input = NoInput

\* Game(n, m), which builds Board(n, m): np.random.choice draws m distinct flat
\* locations and every draw is possible; when Board.__init__ raises there is no
\* board (the arrays are left empty here).
ConstructWith(n, m, calls) ==
    /\ game_board_size = n
    /\ game_num_mines = m
    /\ FreshHistory(n, calls)
    /\ IF ConstructRaises(n, m)
       THEN /\ constructed = FALSE
            /\ BoardInit(n, m, {})
       ELSE /\ constructed = TRUE
            /\ \E mine_flattened_locs \in SUBSET (0 .. n * n - 1) :
                  /\ Cardinality(mine_flattened_locs) = m
                  /\ BoardInit(n, m, mine_flattened_locs)

\* Board(board_size, num_mines) for the mine counts up to MaxMines that the
\* board can hold.
Construct(n, calls) ==
    \E m \in 0 .. MaxMines :
        /\ m <= n * n
        /\ ConstructWith(n, m, calls)

Init == \E n \in 1 .. MaxSize : Construct(n, MaxCalls)

InitWide == \E n \in 1 .. MaxSize + 1 : Construct(n, MaxWideCalls)

\* The boards of a Game that is played and reset: one size below MaxSize, since
\* every reset draws the mines again.
InitGame == \E n \in 1 .. MaxSize - 1 : Construct(n, MaxCalls)

\* Boards called with indices outside the board too.
InitAny == \E n \in 1 .. MaxSize : Construct(n, MaxBuildCalls)

\* Every configuration around the valid ones: board_size from -1, num_mines from
\* -1 to one more than the board holds.
InitBuild ==
    \E n \in -1 .. MaxSize :
    \E m \in -1 .. n * n + 1 : ConstructWith(n, m, MaxBuildCalls)

\* One call of step(row, col, flag) on the board: the arrays and the history.
BoardStep(row, col, flag) ==
    /\ constructed
    /\ budget > 0
    /\ LET r == StepResult(visibility, flags, row, col, flag)
       IN  /\ visibility' = r.visibility
           /\ flags' = r.flags
           /\ last' = [made |-> TRUE, row |-> row, col |-> col, flag |-> flag,
                        raised |-> r.raised, ret |-> r.ret]
           /\ ever_lost' = (ever_lost \/ (~ r.raised /\ r.ret = Lost))
    /\ prev' = [visibility |-> visibility, flags |-> flags, call |-> last]
    /\ only_safe' = (only_safe /\ ~ flag /\ within_board(board_size, row, col)
                                /\ board[<<row, col>>] # -1)
    /\ budget' = budget - 1
    /\ UNCHANGED <<board_size, num_mines, board, mine_locs, constructed>>

\* One call b.step(row, col, flag) made by the caller of the board, outside
\* Game.play.
Step(row, col, flag) ==
    /\ pc # "loop"
    /\ BoardStep(row, col, flag)
    /\ UNCHANGED <<game_vars, play_vars>>

\* Calls with row and col inside the board.
Next ==
    \E row \in 0 .. board_size - 1 :
    \E col \in 0 .. board_size - 1 :
    \E flag \in BOOLEAN : Step(row, col, flag)

\* Calls with row and col from one below -board_size to board_size.
NextAny ==
    \E row \in (0 - board_size - 1) .. board_size :
    \E col \in (0 - board_size - 1) .. board_size :
    \E flag \in BOOLEAN : Step(row, col, flag)

Spec == Init /\ [][Next]_vars

\* self.visibility of a board Game.reset keeps instead of building a new one.
NewVisibility_Kept(n) == visibility

\* np.zeros((board_size, board_size), dtype=bool)
NewVisibility(n) == [p \in Positions(n) |-> FALSE]

\* Game.reset(): self.board = Board(self.board_size, self.num_mines), with a new
\* draw of the mines.  prev keeps what the discarded board looked like.
Reset ==
    /\ constructed
    /\ pc # "loop"
    /\ resets < MaxResets
    /\ \E mine_flattened_locs \in SUBSET (0 .. game_board_size * game_board_size - 1) :
          /\ Cardinality(mine_flattened_locs) = game_num_mines
          /\ board' = NewBoard(game_board_size, mine_flattened_locs)
          /\ mine_locs' = mine_flattened_locs
    /\ board_size' = game_board_size
    /\ num_mines' = game_num_mines
    /\ visibility' = NewVisibility(game_board_size)
    /\ flags' = [p \in Positions(game_board_size) |-> FALSE]
    /\ resets' = resets + 1
    /\ last' = NoCall
    /\ prev' = [visibility |-> visibility, flags |-> flags, call |-> last]
    /\ only_safe' = TRUE
    /\ ever_lost' = FALSE
    /\ UNCHANGED <<budget, constructed, game_board_size, game_num_mines, play_vars>>

\* Game.play up to the while loop: game_status = 0
PlayStart ==
    /\ constructed
    /\ pc \in {"idle", "done"}
    /\ pc' = "loop"
    /\ game_status' = Ongoing
    /\ report' = "none"
    /\ last_input' = NoInput
    /\ UNCHANGED <<board_vars, hist_vars, constructed, game_vars>>

\* A loop that goes on until the game is won.
LoopContinues_UntilWon(status) == status # Won

\* while game_status == 0
LoopContinues(status) == status = Ongoing

\* One turn of the while loop of Game.play: the move (row, col, flag) is read
\* and parsed, and game_status = self.board.step(row, col, flag); an exception of
\* step ends play.
PlayMove(row, col, flag) ==
    /\ pc = "loop"
    /\ LoopContinues(game_status)
    /\ BoardStep(row, col, flag)
    /\ last_input' = [n |-> last_input.n + 1, row |-> row, col |-> col, flag |-> flag]
    /\ game_status' = IF last'.raised THEN game_status ELSE last'.ret
    /\ pc' = IF last'.raised THEN "raised" ELSE "loop"
    /\ UNCHANGED <<game_vars, report>>

\* A report that takes every status but Won for a loss.
ReportOf_WinOnly(status) == IF status = Won THEN "win" ELSE "lose"

\* if game_status == -1: "You lose!" else: "You win!"
ReportOf(status) == IF status = Lost THEN "lose" ELSE "win"

\* Game.play after the loop
PlayReport ==
    /\ pc = "loop"
    /\ ~ LoopContinues(game_status)
    /\ report' = ReportOf(game_status)
    /\ pc' = "done"
    /\ UNCHANGED <<board_vars, hist_vars, constructed, game_vars, game_status, last_input>>

\* A Game: moves played through Game.play or made on its board directly, and
\* Game.reset between plays.
NextGame ==
    \/ PlayStart
    \/ \E row \in 0 .. board_size - 1 :
       \E col \in 0 .. board_size - 1 :
       \E flag \in BOOLEAN : PlayMove(row, col, flag)
    \/ PlayReport
    \/ Reset
    \/ \E row \in 0 .. board_size - 1 :
       \E col \in 0 .. board_size - 1 :
       \E flag \in BOOLEAN : Step(row, col, flag)

SpecWide == InitWide /\ [][Next]_vars

SpecGame == InitGame /\ [][NextGame]_vars

SpecAny == InitAny /\ [][NextAny]_vars

SpecBuild == InitBuild /\ [][Next]_vars

\* ------------------------------------------------------- words of the claims
\* A step call was made on this board.
Called == last.made /\ ~ last.raised
\* The position the last call named.
LastPos == <<last.row, last.col>>
AllPositions == Positions(board_size)
MinePositions == {p \in AllPositions : board[p] = -1}
SafePositions == {p \in AllPositions : board[p] # -1}
Revealed(vis) == {p \in AllPositions : vis[p]}
\* The last call was a reveal of a mine that was not flagged.
LastHitMine ==
    Called /\ ~ last.flag /\ board[LastPos] = -1 /\ ~ prev.flags[LastPos]
\* The last call was a reveal of a mine that was flagged.
LastHitFlaggedMine ==
    Called /\ ~ last.flag /\ board[LastPos] = -1 /\ prev.flags[LastPos]
\* The last call was a reveal of a position holding a number.
LastHitNumber == Called /\ ~ last.flag /\ board[LastPos] > 0
\* The last call was a reveal of a blank position.
LastHitBlank == Called /\ ~ last.flag /\ board[LastPos] = 0
\* The last call was a flag toggle.
LastToggled == Called /\ last.flag
\* The status the preceding call returned, Ongoing on a fresh board.
StatusBefore == IF prev.call.made THEN prev.call.ret ELSE Ongoing

Adjacent4(p, q) ==
    \/ (p[1] = q[1] /\ (p[2] = q[2] + 1 \/ p[2] = q[2] - 1))
    \/ (p[2] = q[2] /\ (p[1] = q[1] + 1 \/ p[1] = q[1] - 1))
Neighbour8(p, q) ==
    /\ p # q
    /\ p[1] - q[1] \in {-1, 0, 1}
    /\ p[2] - q[2] \in {-1, 0, 1}

\* The maximal set of blank positions connected to those of S through
\* 4-adjacency, as the least fixed point of adding blank 4-neighbours.
RECURSIVE BlankClosure(_)
BlankClosure(S) ==
    LET T == S \cup {p \in AllPositions : board[p] = 0 /\ \E q \in S : Adjacent4(p, q)}
    IN  IF T = S THEN S ELSE BlankClosure(T)
\* The numbered rim of a set of positions.
NumberedRim(S) ==
    {p \in AllPositions : board[p] > 0 /\ \E q \in S : Neighbour8(p, q)}

\* ------------------------------------------------------------------ claims
\* C1: on a board with num_mines < board_size^2, as long as every call so far
\* was a reveal of a non-mine position, a call returns Won exactly when every
\* non-mine position is visible after it, and Ongoing otherwise.
C1_SafeRevealsStatus ==
    (Called /\ only_safe /\ num_mines < board_size * board_size) =>
        last.ret = IF SafePositions \subseteq Revealed(visibility) THEN Won ELSE Ongoing

\* C1 witness: a sequence of safe reveals on a mined board whose last call is
\* the first to return Won.
C1_Witness ==
    /\ Called /\ only_safe /\ num_mines > 0
    /\ last.ret = Won
    /\ prev.call.made /\ prev.call.ret = Ongoing

\* C2: a reveal of an unflagged mine returns Lost, makes that one position
\* visible and changes no other visibility entry and no flag; every other call
\* returns a status that is not Lost.
C2_MineRevealLoses ==
    /\ LastHitMine =>
          /\ last.ret = Lost
          /\ visibility = [prev.visibility EXCEPT ![LastPos] = TRUE]
          /\ flags = prev.flags
    /\ (Called /\ ~ LastHitMine) => last.ret # Lost

\* C2 witness: a mine is hit after calls that did not lose, on a board where
\* other positions were visible and flagged.
C2_Witness ==
    /\ LastHitMine /\ last.ret = Lost
    /\ prev.call.made /\ prev.call.ret = Ongoing
    /\ \E p \in AllPositions : p # LastPos /\ prev.flags[p]

\* C3: a call that does not reveal an unflagged mine returns Won if the number
\* of visible positions after it is board_size^2 - num_mines, else Ongoing.
C3_StatusFromCount ==
    (Called /\ ~ LastHitMine) =>
        last.ret = IF Cardinality(Revealed(visibility)) = board_size * board_size - num_mines
                   THEN Won ELSE Ongoing

\* C3 witness: after a loss, a call returns a status computed from the count.
C3_Witness ==
    /\ Called /\ ~ LastHitMine
    /\ prev.call.ret = Lost
    /\ Cardinality(Revealed(visibility)) > board_size * board_size - num_mines

\* C4 (as claimed): whenever a call returns Won, the visible positions are
\* exactly the non-mine positions.
C4_WonMeansAllSafeRevealed ==
    (Called /\ last.ret = Won) => Revealed(visibility) = SafePositions

C6_NumberRevealIsOneCell ==
    LastHitNumber =>
        /\ visibility = [prev.visibility EXCEPT ![LastPos] = TRUE]
        /\ flags = prev.flags

\* C6 witness: a numbered position next to a hidden blank position and a hidden
\* numbered one is revealed; both neighbours stay hidden.
C6_Witness ==
    /\ LastHitNumber
    /\ ~ prev.visibility[LastPos]
    /\ \E p \in AllPositions : Neighbour8(p, LastPos) /\ board[p] = 0 /\ ~ visibility[p]
    /\ \E p \in AllPositions : Neighbour8(p, LastPos) /\ board[p] > 0 /\ ~ visibility[p]

\* C7 (as claimed): a reveal of a flagged mine changes neither visibility nor
\* flags and returns the status the preceding call returned.
C7_FlaggedMineRevealNoOp ==
    LastHitFlaggedMine =>
        /\ visibility = prev.visibility
        /\ flags = prev.flags
        /\ last.ret = StatusBefore

\* C8 (as claimed): a flag toggle returns the status the preceding call
\* returned, Ongoing when it is the first call on the board.
C8_ToggleKeepsStatus ==
    LastToggled => last.ret = StatusBefore

\* C9: a flag toggle inverts the flag of its position and changes no other
\* flag and no visibility entry; a second toggle of the same position, made
\* next, gives back the flags and the visibility of before the first.
C9_ToggleInvertsAndUndoes ==
    LastToggled =>
        /\ flags = [prev.flags EXCEPT ![LastPos] = ~ prev.flags[LastPos]]
        /\ visibility = prev.visibility
        /\ LET again == StepResult(visibility, flags, last.row, last.col, TRUE)
           IN  again.flags = prev.flags /\ again.visibility = prev.visibility

\* C9 witness: two toggles of one position in a row, the position flagged by
\* the first and unflagged by the second, on a board with a visible position.
C9_Witness ==
    /\ LastToggled
    /\ prev.call.flag /\ prev.call.row = last.row /\ prev.call.col = last.col
    /\ prev.flags[LastPos] /\ ~ flags[LastPos]
    /\ Revealed(visibility) # {}

\* C10: every position is hidden on a fresh board, and a position visible
\* before a call is visible after it, also after Won or Lost was returned.
C10_VisibilityMonotone ==
    /\ ~ Called => Revealed(visibility) = {}
    /\ Called => Revealed(prev.visibility) \subseteq Revealed(visibility)

\* C10 witness: a call made after a terminal status reveals more, on a board
\* with positions visible before.
C10_Witness ==
    /\ Called
    /\ prev.call.ret \in {Won, Lost}
    /\ Revealed(prev.visibility) # {}
    /\ Revealed(visibility) # Revealed(prev.visibility)

\* C11 (as claimed): a flag toggle on a visible position leaves its flag
\* unchanged, so flags change only at hidden positions.
C11_VisibleNotToggled ==
    (LastToggled /\ prev.visibility[LastPos]) => flags[LastPos] = prev.flags[LastPos]

\* C11 (amended): a flag toggle on a visible position inverts its flag as on a
\* hidden one; the position stays visible and no other flag changes.
C11_VisibleToggledToo ==
    (LastToggled /\ prev.visibility[LastPos]) =>
        /\ flags[LastPos] = ~ prev.flags[LastPos]
        /\ \A p \in AllPositions : p # LastPos => flags[p] = prev.flags[p]
        /\ visibility[LastPos]

\* C11 witness: a visible, unflagged position was toggled and is flagged now.
C11_Witness ==
    /\ LastToggled
    /\ prev.visibility[LastPos] /\ ~ prev.flags[LastPos]
    /\ flags[LastPos] /\ visibility[LastPos]

\* C12: a constructed board has exactly num_mines mines, at the positions
\* (loc // board_size, loc % board_size) of the drawn flat locations; every other
\* position holds the number of mines among its 8 neighbours on the board, in
\* 0..8, with no wrap to the opposite edge; nothing is visible or flagged
\* before the first call.
C12_ConstructionCounts ==
    constructed =>
        /\ Cardinality(MinePositions) = num_mines
        /\ MinePositions = {<<loc \div board_size, loc % board_size>> : loc \in mine_locs}
        /\ \A p \in SafePositions :
              /\ board[p] = Cardinality({q \in MinePositions : Neighbour8(q, p)})
              /\ board[p] \in 0 .. 8
        /\ ~ last.made =>
              \A p \in AllPositions : ~ visibility[p] /\ ~ flags[p]

\* C12 witness: a fresh board with a mine in the first row and a blank
\* position in the last row of the same column, which a wrapped count would
\* number.
C12_Witness ==
    /\ constructed /\ ~ last.made
    /\ board_size >= 3
    /\ \E c \in 0 .. board_size - 1 :
          board[<<0, c>>] = -1 /\ board[<<board_size - 1, c>>] = 0

\* C13 (as claimed): a step call whose row or col is outside 0 .. board_size-1,
\* negative ones included, raises and changes no visibility entry and no flag.
C13_OutOfRangeRejected ==
    (last.made /\ ~ within_board(board_size, last.row, last.col)) =>
        /\ last.raised
        /\ visibility = prev.visibility
        /\ flags = prev.flags

\* C14 (as claimed): Board(board_size, num_mines) raises and builds no board
\* when board_size <= 0, num_mines < 0 or num_mines > board_size^2.
C14_InvalidConfigRejected ==
    (board_size <= 0 \/ num_mines < 0 \/ num_mines > board_size * board_size) =>
        ~ constructed

\* C17 (as claimed): after a reveal of a blank position every non-mine position
\* in the 8-neighbourhood of the 4-connected blank region is visible, a blank
\* one that touches the region only diagonally included.
C17_WholeBorderRevealed ==
    LastHitBlank =>
        \A p \in SafePositions :
            (\E q \in BlankClosure({LastPos}) : Neighbour8(p, q)) => visibility[p]

\* C18: every visible blank position has its blank 4-neighbours visible and
\* its numbered 8-neighbours visible.
C18_VisibleBlankIsFilled ==
    \A p \in AllPositions :
        (visibility[p] /\ board[p] = 0) =>
            /\ \A q \in AllPositions : (Adjacent4(q, p) /\ board[q] = 0) => visibility[q]
            /\ \A q \in AllPositions : (Neighbour8(q, p) /\ board[q] > 0) => visibility[q]

\* C18 witness: after two calls a blank region of several positions with a
\* numbered rim is visible while another blank position is hidden.
C18_Witness ==
    /\ prev.call.made /\ Called
    /\ \E p \in AllPositions : \E q \in AllPositions :
          /\ visibility[p] /\ board[p] = 0
          /\ Adjacent4(q, p) /\ board[q] = 0
    /\ \E p \in AllPositions : visibility[p] /\ board[p] > 0
    /\ \E p \in AllPositions : ~ visibility[p] /\ board[p] = 0

\* C19: a mine is visible only if some call on the board returned Lost.
C19_MineVisibleOnlyAfterLost ==
    (\E p \in MinePositions : visibility[p]) => ever_lost

\* C19 witness: a flagged mine was revealed on a board with visible positions
\* and no call returned Lost; no mine is visible.
C19_Witness ==
    /\ LastHitFlaggedMine
    /\ ~ ever_lost
    /\ Revealed(visibility) # {}
    /\ \A p \in MinePositions : ~ visibility[p]

\* C20: a reveal changes no flag; a flagged position that holds a number is
\* made visible by a reveal of it, a flood fill makes its whole region and rim
\* visible whatever is flagged, and the flags of those positions stay set.
C20_FlagsProtectOnlyMines ==
    /\ (Called /\ ~ last.flag) => flags = prev.flags
    /\ LastHitNumber => visibility[LastPos]
    /\ LastHitBlank =>
          LET region == BlankClosure({LastPos})
          IN  \A p \in region \cup NumberedRim(region) : visibility[p]

\* C20 witness: a flood fill made a hidden, flagged position visible, and the
\* position is still flagged.
C20_Witness ==
    /\ LastHitBlank
    /\ \E p \in AllPositions :
          /\ p # LastPos
          /\ prev.flags[p] /\ ~ prev.visibility[p]
          /\ visibility[p] /\ flags[p]

\* C15: Game.reset leaves the Game's stored board_size and num_mines as they
\* are (no operation changes them, so they are the constructor's), and the
\* board it builds has that size and that many mines, nothing visible, nothing
\* flagged and the status of a fresh board, whatever the discarded board had
\* visible, flagged or returned.
C15_ResetGivesFreshBoard ==
    [][/\ game_board_size' = game_board_size
       /\ game_num_mines' = game_num_mines
       /\ (resets' = resets + 1) =>
             /\ board_size' = game_board_size
             /\ num_mines' = game_num_mines
             /\ DOMAIN board' = Positions(game_board_size)
             /\ Cardinality({p \in Positions(game_board_size) : board'[p] = -1})
                   = game_num_mines
             /\ \A p \in Positions(game_board_size) : ~ visibility'[p] /\ ~ flags'[p]
             /\ GameStatus(visibility)' =
                   IF game_num_mines = game_board_size * game_board_size
                   THEN Won ELSE Ongoing]_vars

\* C15 witness: a reset made after a loss, on a board that had a flag and a
\* visible position.
C15_Witness ==
    /\ resets > 0 /\ ~ last.made
    /\ prev.call.made /\ prev.call.ret = Lost
    /\ \E p \in DOMAIN prev.flags : prev.flags[p]
    /\ \E p \in DOMAIN prev.visibility : prev.visibility[p]
    /\ \A p \in AllPositions : ~ visibility[p] /\ ~ flags[p]

\* C16: in the loop of Game.play the last step call is the move parsed last and
\* game_status is what it returned; a move is played only after a call that
\* returned Ongoing; play leaves the loop only on a status that is not Ongoing,
\* and then reports a loss exactly for Lost and a win exactly for Won.
C16_PlayStopsAndReports ==
    /\ (pc = "loop" /\ last_input.n >= 1) =>
          /\ last.made
          /\ last.row = last_input.row /\ last.col = last_input.col
          /\ last.flag = last_input.flag
          /\ game_status = last.ret
    /\ (pc = "loop" /\ last_input.n >= 2) => prev.call.ret = Ongoing
    /\ pc = "loop" => report = "none"
    /\ pc = "done" =>
          /\ last_input.n >= 1
          /\ game_status # Ongoing
          /\ report = "lose" <=> game_status = Lost
          /\ report = "win" <=> game_status = Won

\* C16 witness: a play of several moves that ended with a loss reported.
C16_Witness ==
    /\ pc = "done"
    /\ report = "lose"
    /\ last_input.n >= 2

====
